---- MODULE Spec2Model ----
(***************************************************************************)
(* Model of the three batch transforms of telegram-analysis-tools:         *)
(*   scripts/telegram_simplifier_plus.py   (Simplifier)                    *)
(*   scripts/telegram_filter_noise.py      (Noise Filter)                  *)
(*   scripts/chunk_splitter_with_dates.py  (Chunk Splitter)                *)
(* A Python str is modelled as a sequence of one-character strings, so     *)
(* that len, join, split, replace and strip are computed, not assumed.     *)
(***************************************************************************)
EXTENDS Integers, Sequences, FiniteSets, TLC

VARIABLES
    stage,          \* which program / function this run executes
    pc,             \* position in that program
    exit_status,    \* process exit status, "running" until the process ends
    messages,       \* consolidate_messages: parameter messages
    time_window,    \* consolidate_messages: parameter time_window
    max_length,     \* consolidate_messages: parameter max_length
    i,              \* consolidate_messages: loop index (0-based, as in range(1, n))
    current_group,  \* consolidate_messages: current_group
    consolidated,   \* consolidate_messages: consolidated
    input_file,     \* the input file: <<>> when it does not exist, else <<content>>
    output_file,    \* the output file: <<>> until written, else <<content>>
    ret,            \* return value of the stage's function: <<>> until it returns
    header,         \* header: <<>> for None, else <<the header line>>
    lines,          \* lines
    idx,            \* number of lines the current loop has processed
    min_length,     \* filter_noise: parameter min_length
    start_msg_id,   \* filter_noise: parameter start_msg_id, <<>> for None
    start_date,     \* filter_noise: parameter start_date, <<>> for None
    start_timestamp,        \* filter_noise: start_timestamp, <<>> for None
    filtered_by_id_or_date, \* filter_noise: filtered_by_id_or_date
    excluded_count,         \* filter_noise: excluded_count
    filtered_lines,         \* filter_noise: filtered_lines
    noise_count,            \* filter_noise: noise_count
    noise_categories,       \* filter_noise: noise_categories
    max_chars,          \* split_file_by_char_count: parameter max_chars
    chunk_num,          \* split_file_by_char_count: chunk_num
    current_chunk,      \* split_file_by_char_count: current_chunk
    current_chars,      \* split_file_by_char_count: current_chars
    chunk_files,        \* the chunk files written, by number: their contents
    chunk_timestamps,   \* split_file_by_char_count: chunk_timestamps
    summary_file,       \* chunk_summary.csv: <<>> until written, else <<rows>>
    raw_messages,       \* simplify_messages: messages, the entries of the export
    filter_bots,        \* simplify_messages: parameter filter_bots
    url_mode,           \* simplify_messages: parameter url_mode
    consolidate,        \* simplify_messages: parameter consolidate
    want_output,        \* simplify_messages: whether output_file is given
    want_markdown,      \* simplify_messages: whether markdown_output is given
    simplified,         \* simplify_messages: simplified
    markdown_file,      \* the markdown file: <<>> until written, else <<sections>>
    write_error         \* whether opening an output or chunk file for writing failed

consVars == <<messages, time_window, max_length, i, current_group, consolidated>>
fileVars == <<input_file, output_file, ret, header, lines, idx>>
filterVars == <<min_length, start_msg_id, start_date, start_timestamp,
                filtered_by_id_or_date, excluded_count, filtered_lines,
                noise_count, noise_categories>>
splitVars == <<max_chars, chunk_num, current_chunk, current_chars, chunk_files,
               chunk_timestamps, summary_file>>
simpVars == <<raw_messages, filter_bots, url_mode, consolidate, want_output,
              want_markdown, simplified, markdown_file>>
vars == <<stage, pc, exit_status, consVars, fileVars, filterVars, splitVars,
          simpVars, write_error>>

\* Python's None and a present value
None == <<>>
Some(v) == <<v>>

(***************************************************************************)
(* Bounds of the model.                                                    *)
(***************************************************************************)
MaxMsgs == 3        \* longest message list given to consolidate_messages
MaxLines == 2       \* most record lines in the Noise Filter's input file
MaxSplitLines == 3  \* most lines (after the header) in the Chunk Splitter's input
MaxBudget == 6      \* largest character budget given to the Chunk Splitter
MaxEntries == 2     \* most entries in an export given to the Simplifier

(***************************************************************************)
(* String helpers (Python str operations on sequences of characters).      *)
(***************************************************************************)
\* a string literal as the sequence of its characters
Chars(s) == [k \in 1..Len(s) |-> SubSeq(s, k, k)]

RECURSIVE Join(_, _)
\* sep.join(parts)
Join(parts, sep) ==
    IF Len(parts) = 0 THEN <<>>
    ELSE IF Len(parts) = 1 THEN parts[1]
    ELSE parts[1] \o sep \o Join(Tail(parts), sep)

Digits == <<"0", "1", "2", "3", "4", "5", "6", "7", "8", "9">>

DigitVal(c) == (CHOOSE d \in 1..10 : Digits[d] = c) - 1

RECURSIVE ParseInt(_)
\* int(s) for a non-empty string of decimal digits
ParseInt(s) ==
    IF Len(s) = 1 THEN DigitVal(s[1])
    ELSE 10 * ParseInt(SubSeq(s, 1, Len(s) - 1)) + DigitVal(s[Len(s)])

(***************************************************************************)
(* consolidate_messages                                                    *)
(***************************************************************************)
\* '\n\n', the separator of a consolidated text
GroupSep == <<"\n", "\n">>

\* The merge test of the loop body: same sender, within the time window,
\* incoming text and the group's last text both within max_length.
ExtendsGroupStrictWindow(cur, last, window, maxlen) ==
    /\ cur.from_id = last.from_id
    /\ ParseInt(cur.date_unixtime) - ParseInt(last.date_unixtime) < window
    /\ Len(cur.text) <= maxlen
    /\ Len(last.text) <= maxlen

ExtendsGroupStrictLength(cur, last, window, maxlen) ==
    /\ cur.from_id = last.from_id
    /\ ParseInt(cur.date_unixtime) - ParseInt(last.date_unixtime) <= window
    /\ Len(cur.text) < maxlen
    /\ Len(last.text) <= maxlen

ExtendsGroup(cur, last, window, maxlen) ==
    /\ cur.from_id = last.from_id
    /\ ParseInt(cur.date_unixtime) - ParseInt(last.date_unixtime) <= window
    /\ Len(cur.text) <= maxlen
    /\ Len(last.text) <= maxlen

\* The record a closed group contributes to the result.
CombineGroupFirstTimestamp(group) ==
    IF Len(group) > 1
    THEN [id            |-> group[1].id,
          date_unixtime |-> group[1].date_unixtime,
          from          |-> group[1].from,
          from_id       |-> group[1].from_id,
          text          |-> Join([k \in 1..Len(group) |-> group[k].text], GroupSep)]
    ELSE group[1]

CombineGroupDropsMiddle(group) ==
    IF Len(group) > 1
    THEN [id            |-> group[1].id,
          date_unixtime |-> group[Len(group)].date_unixtime,
          from          |-> group[1].from,
          from_id       |-> group[1].from_id,
          text          |-> group[1].text \o GroupSep \o group[Len(group)].text]
    ELSE group[1]

CombineGroup(group) ==
    IF Len(group) > 1
    THEN [id            |-> group[1].id,
          date_unixtime |-> group[Len(group)].date_unixtime,
          from          |-> group[1].from,
          from_id       |-> group[1].from_id,
          text          |-> Join([k \in 1..Len(group) |-> group[k].text], GroupSep)]
    ELSE group[1]

\* if not messages: return []   /   consolidated = []; current_group = [messages[0]]
CmEnter ==
    /\ pc = "cm_enter"
    /\ IF Len(messages) = 0
       THEN /\ consolidated' = <<>>
            /\ current_group' = <<>>
            /\ i' = 0
            /\ pc' = "cm_return"
       ELSE /\ consolidated' = <<>>
            /\ current_group' = <<messages[1]>>
            /\ i' = 1
            /\ pc' = "cm_loop"
    /\ UNCHANGED <<simpVars, write_error,
                   stage, exit_status, messages, time_window, max_length,
                   fileVars, filterVars, splitVars>>

\* One iteration of: for i in range(1, len(messages))
CmLoop ==
    /\ pc = "cm_loop"
    /\ i < Len(messages)
    /\ LET current_msg == messages[i + 1]
           last_msg == current_group[Len(current_group)]
       IN IF ExtendsGroup(current_msg, last_msg, time_window, max_length)
          THEN /\ current_group' = Append(current_group, current_msg)
               /\ UNCHANGED consolidated
          ELSE /\ consolidated' = Append(consolidated, CombineGroup(current_group))
               /\ current_group' = <<current_msg>>
    /\ i' = i + 1
    /\ UNCHANGED <<simpVars, write_error,
                   stage, pc, exit_status, messages, time_window, max_length,
                   fileVars, filterVars, splitVars>>

\* After the loop: process the last group and return
CmLast ==
    /\ pc = "cm_loop"
    /\ i = Len(messages)
    /\ consolidated' = Append(consolidated, CombineGroup(current_group))
    /\ pc' = "cm_return"
    /\ UNCHANGED <<simpVars, write_error,
                   stage, exit_status, messages, time_window, max_length, i,
                   current_group, fileVars, filterVars, splitVars>>

(***************************************************************************)
(* Inputs of consolidate_messages: simplified records with non-empty text. *)
(***************************************************************************)
Letters == <<"a", "b", "c", "d", "e", "f">>

\* The k-th message's text is the k-th letter repeated once or twice:
\* every position has its own content, so a lost, duplicated or reordered
\* text is visible in the result.
TextsAt(k) == {[j \in 1..n |-> Letters[k]] : n \in 1..2}

TimeStrings == {<<"0">>, <<"1">>, <<"2">>}

\* the windows and the length limit consolidate_messages is called with here:
\* differences of window and window + 1, lengths of max_length and
\* max_length + 1 all occur among the inputs
TimeWindows == {0, 1}
MaxLengths == {1}

SenderIds == {<<"u", "1">>, <<"u", "2">>}
SenderNames == {<<"A">>, <<"B">>}

\* the k-th simplified record carries id k (ids are unique within an export)
SimplifiedAt(k) ==
    [id : {k}, date_unixtime : TimeStrings, from : SenderNames,
     from_id : SenderIds, text : TextsAt(k)]

MessageLists ==
    UNION {{m \in [1..n -> UNION {SimplifiedAt(k) : k \in 1..n}] :
                \A k \in 1..n : m[k].id = k} : n \in 0..MaxMsgs}

\* the variables of the programs that do not run
IdleFiles ==
    /\ input_file = None /\ output_file = None /\ ret = None
    /\ header = None /\ lines = <<>> /\ idx = 0
IdleFilter ==
    /\ min_length = 0 /\ start_msg_id = None /\ start_date = None
    /\ start_timestamp = None /\ filtered_by_id_or_date = <<>>
    /\ excluded_count = 0 /\ filtered_lines = <<>> /\ noise_count = 0
    /\ noise_categories = <<>>
IdleSplit ==
    /\ max_chars = 0 /\ chunk_num = 0 /\ current_chunk = <<>> /\ current_chars = 0
    /\ chunk_files = <<>> /\ chunk_timestamps = <<>> /\ summary_file = None

IdleSimplify ==
    /\ raw_messages = <<>> /\ filter_bots = FALSE /\ url_mode = "preserve"
    /\ consolidate = FALSE /\ want_output = FALSE /\ want_markdown = FALSE
    /\ simplified = <<>> /\ markdown_file = None /\ write_error = FALSE

IdleConsolidate ==
    /\ messages = <<>> /\ time_window = 0 /\ max_length = 0 /\ i = 0
    /\ current_group = <<>> /\ consolidated = <<>>

InitConsolidate ==
    /\ stage = "consolidate"
    /\ pc = "cm_enter"
    /\ exit_status = None
    /\ IdleFiles /\ IdleFilter /\ IdleSplit /\ IdleSimplify
    /\ messages \in MessageLists
    /\ time_window \in TimeWindows
    /\ max_length \in MaxLengths
    /\ i = 0
    /\ current_group = <<>>
    /\ consolidated = <<>>

NextConsolidate == CmEnter \/ CmLoop \/ CmLast

SpecConsolidate == InitConsolidate /\ [][NextConsolidate]_vars

(***************************************************************************)
(* More string helpers                                                     *)
(***************************************************************************)
\* characters outside ASCII that the patterns below tell apart
Smiley == "U+1F600"     \* an emoji (in EMOJI_PATTERN's ranges, not a word character)
Han == "U+4E2D"         \* a CJK letter (a word character inside \U000024C2-\U0001F251)
Ellipsis == "U+2026"    \* the horizontal ellipsis of LOW_VALUE_PHRASES[4]

UpperLetters == Chars("ABCDEFGHIJKLMNOPQRSTUVWXYZ")
LowerLetters == Chars("abcdefghijklmnopqrstuvwxyz")

Range(s) == {s[k] : k \in 1..Len(s)}

\* str.isspace of one character
IsSpace(c) == c \in {" ", "\n", "\t", "\r"}

\* \w of one character (Unicode matching, as re does for str patterns)
IsWordChar(c) ==
    c \in Range(UpperLetters) \cup Range(LowerLetters) \cup Range(Digits) \cup {"_", Han}

\* one character of str.lower()
LowerChar(c) ==
    IF c \in Range(UpperLetters)
    THEN LowerLetters[CHOOSE k \in 1..26 : UpperLetters[k] = c]
    ELSE c

\* str.lower()
Lower(s) == [k \in 1..Len(s) |-> LowerChar(s[k])]

RECURSIVE LStrip(_)
LStrip(s) == IF Len(s) > 0 /\ IsSpace(s[1]) THEN LStrip(Tail(s)) ELSE s

RECURSIVE RStrip(_)
RStrip(s) ==
    IF Len(s) > 0 /\ IsSpace(s[Len(s)]) THEN RStrip(SubSeq(s, 1, Len(s) - 1)) ELSE s

\* str.strip()
Strip(s) == RStrip(LStrip(s))

\* str.isdigit() (over the decimal digits)
IsDigitStr(s) == Len(s) > 0 /\ \A k \in 1..Len(s) : s[k] \in Range(Digits)

\* str.startswith(prefix)
StartsWith(s, prefix) ==
    Len(s) >= Len(prefix) /\ SubSeq(s, 1, Len(prefix)) = prefix

\* prefix in s, at position k
OccursAt(s, sub, k) ==
    k + Len(sub) - 1 <= Len(s) /\ SubSeq(s, k, k + Len(sub) - 1) = sub

\* sub in s (re.search of a literal, str.count(sub) > 0)
Contains(s, sub) == \E k \in 1..(Len(s) + 1) : OccursAt(s, sub, k)

RECURSIVE SplitFrom(_, _, _)
\* the fields of s from position k on, field begun so far in acc
SplitFrom(s, sep, acc) ==
    IF Len(s) = 0 THEN <<acc>>
    ELSE IF s[1] = sep THEN <<acc>> \o SplitFrom(Tail(s), sep, <<>>)
    ELSE SplitFrom(Tail(s), sep, Append(acc, s[1]))

\* s.split(sep) for a one-character separator
Split(s, sep) == SplitFrom(s, sep, <<>>)

RECURSIVE ReadLinesFrom(_, _)
ReadLinesFrom(s, acc) ==
    IF Len(s) = 0 THEN (IF Len(acc) = 0 THEN <<>> ELSE <<acc>>)
    ELSE IF s[1] = "\n" THEN <<Append(acc, "\n")>> \o ReadLinesFrom(Tail(s), <<>>)
    ELSE ReadLinesFrom(Tail(s), Append(acc, s[1]))

\* f.readlines(): the lines of a file, each with its line break
ReadLines(content) == ReadLinesFrom(content, <<>>)

RECURSIVE Concat(_)
\* the lines written one after the other
Concat(ls) == IF Len(ls) = 0 THEN <<>> ELSE ls[1] \o Concat(Tail(ls))

\* every character of the non-empty string s is in set S: ^[S]+$
AllIn(s, S) == Len(s) > 0 /\ \A k \in 1..Len(s) : s[k] \in S

(***************************************************************************)
(* The Noise Filter's patterns                                             *)
(***************************************************************************)
\* LOW_VALUE_PHRASES[0]: the alternatives of the first pattern
LowValueWords ==
    {Chars("agreed"), Chars("agree"), Chars("this"), Chars("that"), Chars("yes"),
     Chars("no"), Chars("yep"), Chars("nope"), Chars("maybe"), Chars("ok"),
     Chars("okay"), Chars("lol"), Chars("haha"), Chars("hmm"), Chars("cool"),
     Chars("nice"), Chars("great"), Chars("+1"), Chars("-1"), Chars("same"),
     Chars("^"), Chars("indeed"), Chars("true"), Chars("false"),
     Chars("correct"), Chars("wrong"), Chars("right"), Chars("exactly"),
     Chars("precisely"), Chars("ofc"), Chars("of course"), Chars("def"),
     Chars("definitely"), Chars("absolutely")}

\* LOW_VALUE_PHRASES[1]
ThanksWords ==
    {Chars("thanks"), Chars("thank you"), Chars("ty"), Chars("thx"),
     Chars("tnx"), Chars("thanks!"), Chars("ty!")}

\* LOW_VALUE_PHRASES[4]: [.!?...,:;]
PunctuationChars == {".", "!", "?", Ellipsis, ",", ":", ";"}

\* any(re.match(pattern, normalized_text, re.IGNORECASE) for pattern in LOW_VALUE_PHRASES)
MatchesLowValue(t) ==
    \/ t \in LowValueWords
    \/ t \in ThanksWords
    \/ AllIn(t, {"h", "m"}) \/ AllIn(t, {"h", "a"})
    \/ AllIn(t, {"l", "o"}) \/ AllIn(t, {"e", "h"})
    \/ (Len(t) <= 3 /\ AllIn(t, {"k", "w"}))
    \/ AllIn(t, PunctuationChars)

\* OFF_TOPIC_PATTERNS[0]: ^(\/off|\/price)\b
RoseCommands == {Chars("/off"), Chars("/price")}

\* OFF_TOPIC_PATTERNS[1..5], the alternatives of each expanded
OffTopicPhrases ==
    {Chars("please ") \o verb \o Chars(" this ") \o noun \o Chars(" to") :
        verb \in {Chars("take"), Chars("move"), Chars("continue")},
        noun \in {Chars("discussion"), Chars("conversation"), Chars("topic")}}
    \cup {Chars("this ") \o noun \o Chars(" belongs in") :
        noun \in {Chars("discussion"), Chars("conversation"), Chars("topic")}}
    \cup {Chars("there") \o is \o Chars(" a ") \o place \o Chars(" for ") \o what :
        is \in {Chars("'s"), Chars(" is")},
        place \in {Chars("channel"), Chars("group"), Chars("chat")},
        what \in {Chars("this"), Chars("that"), Chars("price")}}
    \cup {Chars("let's ") \o verb \o Chars(" on topic") :
        verb \in {Chars("keep"), Chars("stay")}}
    \cup {Chars("this is ") \o how \o Chars(" topic") :
        how \in {Chars("off"), Chars("getting off")}}

\* any(re.search(pattern, normalized_text, re.IGNORECASE) for pattern in OFF_TOPIC_PATTERNS)
MatchesOffTopic(t) ==
    \/ \E cmd \in RoseCommands :
          /\ StartsWith(t, cmd)
          /\ (Len(t) = Len(cmd) \/ ~IsWordChar(t[Len(cmd) + 1]))
    \/ \E phrase \in OffTopicPhrases : Contains(t, phrase)

\* the characters of EMOJI_PATTERN's class
InEmojiRange(c) == c \in {Smiley, Han}

\* [\W\s]
NonWordOrSpace(c) == ~IsWordChar(c) \/ IsSpace(c)

\* re.match(EMOJI_PATTERN, normalized_text): ^[\W\s]*[emoji]+[\W\s]*$
MatchesEmoji(t) ==
    \E a \in 0..Len(t), b \in 0..Len(t) :
        /\ a < b
        /\ \A k \in 1..a : NonWordOrSpace(t[k])
        /\ \A k \in (a + 1)..b : InEmojiRange(t[k])
        /\ \A k \in (b + 1)..Len(t) : NonWordOrSpace(t[k])

\* re.match(URL_ONLY_PATTERN, normalized_text): ^\s*(\[[\w\.]+\])\s*$
MatchesUrlOnly(t) ==
    LET u == Strip(t)
    IN /\ Len(u) >= 3
       /\ u[1] = "[" /\ u[Len(u)] = "]"
       /\ \A k \in 2..(Len(u) - 1) : IsWordChar(u[k]) \/ u[k] = "."

\* The if/elif chain of filter_noise on one record's text field: the
\* category the record is tallied under, or "kept".
ClassifyUrlBeforeEmoji(field, minlen) ==
    LET text == Strip(field)
        normalized_text == Lower(Strip(text))
    IN IF Len(text) = 0 THEN "empty"
       ELSE IF Len(normalized_text) = 0 THEN "empty"
       ELSE IF MatchesLowValue(normalized_text) THEN "low_value"
       ELSE IF MatchesOffTopic(normalized_text) THEN "off_topic"
       ELSE IF MatchesUrlOnly(normalized_text) THEN "url_only"
       ELSE IF MatchesEmoji(normalized_text) THEN "emoji_only"
       ELSE IF minlen > 0 /\ Len(text) <= minlen /\ ~Contains(text, <<"\n", "\n">>)
            THEN "low_value"
       ELSE "kept"

Classify(field, minlen) ==
    LET text == Strip(field)
        normalized_text == Lower(Strip(text))
    IN IF Len(text) = 0 THEN "empty"
       ELSE IF Len(normalized_text) = 0 THEN "empty"
       ELSE IF MatchesLowValue(normalized_text) THEN "low_value"
       ELSE IF MatchesOffTopic(normalized_text) THEN "off_topic"
       ELSE IF MatchesEmoji(normalized_text) THEN "emoji_only"
       ELSE IF MatchesUrlOnly(normalized_text) THEN "url_only"
       ELSE IF minlen > 0 /\ Len(text) <= minlen /\ ~Contains(text, <<"\n", "\n">>)
            THEN "low_value"
       ELSE "kept"

\* is_noise_message: a text longer than a set threshold, without a double
\* line break, is not noise whatever it matches; else noise is what is empty
\* after normalization or matches a pattern
IsNoiseMessage(msg_text, minlen) ==
    IF minlen > 0 /\ Len(msg_text) > minlen /\ ~Contains(msg_text, <<"\n", "\n">>)
    THEN FALSE
    ELSE LET normalized_text == Lower(Strip(msg_text))
         IN \/ Len(normalized_text) = 0
            \/ MatchesLowValue(normalized_text)
            \/ MatchesOffTopic(normalized_text)
            \/ MatchesEmoji(normalized_text)
            \/ MatchesUrlOnly(normalized_text)

NoiseCategories == {"low_value", "off_topic", "emoji_only", "url_only", "empty"}

(***************************************************************************)
(* filter_noise                                                            *)
(***************************************************************************)
\* '# Format:'
HeaderMarker == Chars("# Format:")

\* datetime.strptime(start_date, "%Y-%m-%d").timestamp() of the dates used
\* here, local time being UTC; <<>> for a ValueError
StrptimeTimestamp(s) ==
    IF s = Chars("1970-01-02") THEN Some(86400) ELSE None

\* Lines 113-123: start_timestamp from start_date
ResolveStartDate(sd) ==
    IF sd = None \/ Len(sd[1]) = 0 THEN None
    ELSE IF IsDigitStr(sd[1]) THEN Some(ParseInt(sd[1]))
    ELSE StrptimeTimestamp(sd[1])

\* msg_id / date_unixtime of a line's field: int(field) if field.isdigit() else 0
FieldNumber(field) == IF IsDigitStr(field) THEN ParseInt(field) ELSE 0

\* Lines 131-144: whether the range restriction keeps a line
RangeIncludesReversed(line, sid, sts) ==
    LET parts == Split(line, "|")
    IN \/ Len(parts) < 5
       \/ /\ ~(sid # None /\ FieldNumber(parts[1]) > sid[1])
          /\ ~(sts # None /\ FieldNumber(parts[2]) > sts[1])

RangeIncludesChecksEveryLine(line, sid, sts) ==
    LET parts == Split(line, "|")
    IN /\ ~(sid # None /\ FieldNumber(parts[1]) < sid[1])
       /\ ~(sts # None /\ Len(parts) >= 2 /\ FieldNumber(parts[2]) < sts[1])

RangeIncludes(line, sid, sts) ==
    LET parts == Split(line, "|")
    IN \/ Len(parts) < 5
       \/ /\ ~(sid # None /\ FieldNumber(parts[1]) < sid[1])
          /\ ~(sts # None /\ FieldNumber(parts[2]) < sts[1])

\* open(input_file), readlines, header detection, start_date conversion
FnRead ==
    /\ stage = "filter"
    /\ pc = "fn_call"
    /\ IF input_file = None
       THEN /\ ret' = Some(FALSE)
            /\ pc' = "fn_return"
            /\ UNCHANGED <<header, lines, start_timestamp>>
       ELSE LET all == ReadLines(input_file[1])
                hasHeader == Len(all) > 0 /\ StartsWith(all[1], HeaderMarker)
                sts == ResolveStartDate(start_date)
            IN /\ header' = IF hasHeader THEN Some(all[1]) ELSE None
               /\ lines' = IF hasHeader THEN Tail(all) ELSE all
               /\ start_timestamp' = sts
               /\ pc' = IF start_msg_id # None \/ sts # None
                        THEN "fn_range" ELSE "fn_noise"
               /\ UNCHANGED ret
    /\ idx' = 0
    /\ filtered_by_id_or_date' = <<>>
    /\ excluded_count' = 0
    /\ filtered_lines' = <<>>
    /\ noise_count' = 0
    /\ noise_categories' = [c \in NoiseCategories |-> 0]
    /\ UNCHANGED <<simpVars, write_error,
                   stage, exit_status, consVars, input_file, output_file,
                   min_length, start_msg_id, start_date, splitVars>>

\* One iteration of the range loop (lines 130-149)
FnRangeStep ==
    /\ pc = "fn_range"
    /\ idx < Len(lines)
    /\ LET line == lines[idx + 1]
       IN IF RangeIncludes(line, start_msg_id, start_timestamp)
          THEN /\ filtered_by_id_or_date' = Append(filtered_by_id_or_date, line)
               /\ UNCHANGED excluded_count
          ELSE /\ excluded_count' = excluded_count + 1
               /\ UNCHANGED filtered_by_id_or_date
    /\ idx' = idx + 1
    /\ UNCHANGED <<simpVars, write_error,
                   stage, pc, exit_status, consVars, input_file, output_file, ret,
                   header, lines, min_length, start_msg_id, start_date,
                   start_timestamp, filtered_lines, noise_count, noise_categories,
                   splitVars>>

\* lines = filtered_by_id_or_date (line 151)
FnRangeDone ==
    /\ pc = "fn_range"
    /\ idx = Len(lines)
    /\ lines' = filtered_by_id_or_date
    /\ idx' = 0
    /\ pc' = "fn_noise"
    /\ UNCHANGED <<simpVars, write_error,
                   stage, exit_status, consVars, input_file, output_file, ret,
                   header, filterVars, splitVars>>

\* One iteration of the noise loop (lines 171-228)
FnNoiseStep ==
    /\ pc = "fn_noise"
    /\ idx < Len(lines)
    /\ LET line == lines[idx + 1]
           parts == Split(line, "|")
       IN IF Len(parts) < 5
          THEN /\ filtered_lines' = Append(filtered_lines, line)
               /\ UNCHANGED <<noise_count, noise_categories>>
          ELSE LET category == Classify(parts[5], min_length)
               IN IF category = "kept"
                  THEN /\ filtered_lines' = Append(filtered_lines, line)
                       /\ UNCHANGED <<noise_count, noise_categories>>
                  ELSE /\ noise_count' = noise_count + 1
                       /\ noise_categories' =
                            [noise_categories EXCEPT ![category] = @ + 1]
                       /\ UNCHANGED filtered_lines
    /\ idx' = idx + 1
    /\ UNCHANGED <<simpVars, write_error,
                   stage, pc, exit_status, consVars, input_file, output_file, ret,
                   header, lines, min_length, start_msg_id, start_date,
                   start_timestamp, filtered_by_id_or_date, excluded_count,
                   splitVars>>

FilterOutputReversed(hdr, kept) ==
    (IF hdr # None THEN hdr[1] ELSE <<>>)
        \o Concat([k \in 1..Len(kept) |-> kept[Len(kept) + 1 - k]])

\* what lines 247-251 write
FilterOutput(hdr, kept) == (IF hdr # None THEN hdr[1] ELSE <<>>) \o Concat(kept)

\* Lines 230-268: statistics, the output file, the size comparison. The
\* open() for writing fails or not; with the output written, the reduction
\* percentage divides by the input's size, and the ZeroDivisionError of an
\* empty input is caught by the same except clause.
FnWrite ==
    /\ pc = "fn_noise"
    /\ idx = Len(lines)
    /\ \E writable \in BOOLEAN :
          IF writable
          THEN /\ output_file' = Some(FilterOutput(header, filtered_lines))
               /\ ret' = Some(Len(input_file[1]) # 0)
               /\ UNCHANGED write_error
          ELSE /\ UNCHANGED output_file
               /\ ret' = Some(FALSE)
               /\ write_error' = TRUE
    /\ pc' = "fn_return"
    /\ UNCHANGED <<simpVars,
                   stage, exit_status, consVars, input_file, header, lines, idx,
                   filterVars, splitVars>>

\* __main__ calls filter_noise(...) as a statement: its result is dropped
\* and the interpreter ends with status 0
FnExit ==
    /\ stage = "filter"
    /\ pc = "fn_return"
    /\ exit_status' = Some(0)
    /\ pc' = "exited"
    /\ UNCHANGED <<simpVars, write_error,
                   stage, consVars, fileVars, filterVars,
                   splitVars>>

\* Lines 126-228 as a function: the lines filter_noise keeps of the lines
\* after the header, for a start id, a start timestamp and a threshold
KeptLines(body, sid, sts, minlen) ==
    LET inrange == IF sid # None \/ sts # None
                   THEN SelectSeq(body, LAMBDA line : RangeIncludes(line, sid, sts))
                   ELSE body
        keep(line) == LET parts == Split(line, "|")
                      IN Len(parts) < 5 \/ Classify(parts[5], minlen) = "kept"
    IN SelectSeq(inrange, keep)

(***************************************************************************)
(* Inputs of the Noise Filter                                              *)
(***************************************************************************)
\* a record line of the pipe-delimited format
RecordLine(id, ts, text) ==
    id \o <<"|">> \o ts \o Chars("|A|u1|") \o text \o <<"\n">>

\* the header line the Simplifier writes
HeaderLine == Chars("# Format: id|date_unixtime|from|from_id|text") \o <<"\n">>

\* ids and timestamps on both sides of the thresholds, numeric or not
RangeSampleLines ==
    {RecordLine(Chars(f[1]), Chars(f[2]), Chars("hi")) :
        f \in {<<"1", "2">>, <<"3", "4">>, <<"1", "4">>, <<"3", "2">>,
               <<"x", "4">>, <<"", "4">>, <<"3", "x">>, <<"3", "">>}}

\* texts of every category, of none, and of two at once
TextSamples ==
    {Chars(""), Chars(" "), Chars("lol"), Chars("LOL"), Chars("kkkk"),
     Chars("!?"), Chars("/off x"), Chars("/offer"),
     Chars("let's stay on topic"), <<Smiley>>, Chars("[a.b]"),
     <<"[", Han, "]">>, Chars("hey!"), Chars("a  b"), Chars("a\\|b"),
     Chars("hello world")}

TextSampleLines == {RecordLine(Chars("3"), Chars("4"), t) : t \in TextSamples}

\* lines of fewer than five fields
MalformedLines == {Chars("junk") \o <<"\n">>, Chars("1|2|x") \o <<"\n">>}

FilterLines == RangeSampleLines \cup TextSampleLines \cup MalformedLines

FilterBodies ==
    UNION {[1..n -> FilterLines] : n \in 0..MaxLines}

FilterFiles ==
    {Concat(b) : b \in FilterBodies} \cup {HeaderLine \o Concat(b) : b \in FilterBodies}

MinLengths == {0, 4}
StartMsgIds == {None, Some(2)}
StartDates == {None, Some(Chars("3")), Some(Chars("soon")), Some(Chars("1970-01-02"))}

InitFilter ==
    /\ stage = "filter"
    /\ pc = "fn_call"
    /\ exit_status = None
    /\ IdleConsolidate /\ IdleSimplify
    /\ input_file \in {None} \cup {Some(f) : f \in FilterFiles}
    /\ output_file = None /\ ret = None /\ header = None /\ lines = <<>> /\ idx = 0
    /\ min_length \in MinLengths
    /\ start_msg_id \in StartMsgIds
    /\ start_date \in StartDates
    /\ start_timestamp = None
    /\ filtered_by_id_or_date = <<>>
    /\ excluded_count = 0
    /\ filtered_lines = <<>>
    /\ noise_count = 0
    /\ noise_categories = <<>>
    /\ IdleSplit

NextFilter == FnRead \/ FnRangeStep \/ FnRangeDone \/ FnNoiseStep \/ FnWrite \/ FnExit

SpecFilter == InitFilter /\ [][NextFilter]_vars

(***************************************************************************)
(* split_file_by_char_count                                                *)
(***************************************************************************)
\* extract_unixtime: int(parts[1]) when the line has two fields and the
\* second is a number, None otherwise
ExtractUnixtime(line) ==
    LET parts == Split(line, "|")
    IN IF Len(parts) >= 2 /\ IsDigitStr(parts[2]) THEN Some(ParseInt(parts[2]))
       ELSE None

\* what lines 92-95 (and 127-130) write to the chunk file
ChunkFileContentHeaderEverywhere(hdr, num, chunk) ==
    (IF hdr # None THEN hdr[1] \o <<"\n">> ELSE <<>>) \o Join(chunk, <<"\n">>)

ChunkFileContent(hdr, num, chunk) ==
    (IF hdr # None /\ num = 1 THEN hdr[1] \o <<"\n">> ELSE <<>>)
        \o Join(chunk, <<"\n">>)

\* the (first_time, last_time) of a chunk
ChunkTimes(chunk) ==
    <<ExtractUnixtime(chunk[1]), ExtractUnixtime(chunk[Len(chunk)])>>

SpReadWithoutEmptyCheck ==
    /\ stage = "split"
    /\ pc = "sp_call"
    /\ IF input_file = None
       THEN /\ ret' = Some(FALSE)
            /\ pc' = "sp_return"
            /\ UNCHANGED <<header, lines>>
       ELSE LET content == input_file[1]
                first == Split(content, "\n")
                hasHeader == StartsWith(first[1], HeaderMarker)
                body == IF hasHeader THEN Join(Tail(first), <<"\n">>) ELSE content
                ls == Split(body, "\n")
            IN /\ header' = IF hasHeader THEN Some(first[1]) ELSE None
               /\ lines' = ls
               /\ UNCHANGED ret
               /\ pc' = "sp_loop"
    /\ idx' = 0
    /\ chunk_num' = 1
    /\ chunk_files' = <<>>
    /\ chunk_timestamps' = <<>>
    /\ current_chunk' = <<>>
    /\ current_chars' = 0
    /\ UNCHANGED <<simpVars, write_error,
                   stage, exit_status, consVars, filterVars, input_file,
                   output_file, max_chars, summary_file>>

\* Lines 46-75: read the file, take the header off, split into lines
SpRead ==
    /\ stage = "split"
    /\ pc = "sp_call"
    /\ IF input_file = None
       THEN /\ ret' = Some(FALSE)
            /\ pc' = "sp_return"
            /\ UNCHANGED <<header, lines>>
       ELSE LET content == input_file[1]
                first == Split(content, "\n")
                hasHeader == StartsWith(first[1], HeaderMarker)
                body == IF hasHeader THEN Join(Tail(first), <<"\n">>) ELSE content
                ls == Split(body, "\n")
            IN /\ header' = IF hasHeader THEN Some(first[1]) ELSE None
               /\ lines' = ls
               /\ IF Len(ls) = 0 \/ (Len(ls) = 1 /\ Len(ls[1]) = 0)
                  THEN ret' = Some(FALSE) /\ pc' = "sp_return"
                  ELSE UNCHANGED ret /\ pc' = "sp_loop"
    /\ idx' = 0
    /\ chunk_num' = 1
    /\ chunk_files' = <<>>
    /\ chunk_timestamps' = <<>>
    /\ current_chunk' = <<>>
    /\ current_chars' = 0
    /\ UNCHANGED <<simpVars, write_error,
                   stage, exit_status, consVars, filterVars, input_file,
                   output_file, max_chars, summary_file>>

\* One iteration of the loop over the lines (lines 78-115); the chunk file
\* is written or the open() fails
SpLoopStep ==
    /\ pc = "sp_loop"
    /\ idx < Len(lines)
    /\ LET line == lines[idx + 1]
           line_chars == Len(line) + 1
       IN IF current_chars + line_chars > max_chars /\ Len(current_chunk) > 0
          THEN \E writable \in BOOLEAN :
                  IF writable
                  THEN /\ chunk_files' = Append(chunk_files,
                              ChunkFileContent(header, chunk_num, current_chunk))
                       /\ chunk_timestamps' = Append(chunk_timestamps,
                              ChunkTimes(current_chunk))
                       /\ chunk_num' = chunk_num + 1
                       /\ current_chunk' = <<line>>
                       /\ current_chars' = line_chars
                       /\ idx' = idx + 1
                       /\ UNCHANGED <<ret, pc, write_error>>
                  ELSE /\ ret' = Some(FALSE)
                       /\ pc' = "sp_return"
                       /\ write_error' = TRUE
                       /\ UNCHANGED <<chunk_files, chunk_timestamps, chunk_num,
                                      current_chunk, current_chars, idx>>
          ELSE /\ current_chunk' = Append(current_chunk, line)
               /\ current_chars' = current_chars + line_chars
               /\ idx' = idx + 1
               /\ UNCHANGED <<chunk_files, chunk_timestamps, chunk_num, ret, pc,
                              write_error>>
    /\ UNCHANGED <<simpVars,
                   stage, exit_status, consVars, filterVars, input_file,
                   output_file, header, lines, max_chars, summary_file>>

\* Lines 117-169: the last chunk, then the summary file, whose write error
\* is reported and does not change the result
SpLast ==
    /\ pc = "sp_loop"
    /\ idx = Len(lines)
    /\ \E writable \in BOOLEAN :
          IF Len(current_chunk) > 0 /\ ~writable
          THEN /\ ret' = Some(FALSE)
               /\ write_error' = TRUE
               /\ UNCHANGED <<chunk_files, chunk_timestamps, summary_file>>
          ELSE LET files == IF Len(current_chunk) > 0
                            THEN Append(chunk_files,
                                   ChunkFileContent(header, chunk_num, current_chunk))
                            ELSE chunk_files
                   times == IF Len(current_chunk) > 0
                            THEN Append(chunk_timestamps, ChunkTimes(current_chunk))
                            ELSE chunk_timestamps
               IN /\ chunk_files' = files
                  /\ chunk_timestamps' = times
                  /\ \E summaryWritable \in BOOLEAN :
                        summary_file' = IF summaryWritable
                                        THEN Some([k \in 1..Len(files) |->
                                                    <<k, times[k][1], times[k][2]>>])
                                        ELSE None
                  /\ ret' = Some(TRUE)
                  /\ UNCHANGED write_error
    /\ pc' = "sp_return"
    /\ UNCHANGED <<simpVars,
                   stage, exit_status, consVars, filterVars, input_file,
                   output_file, header, lines, idx, max_chars, chunk_num,
                   current_chunk, current_chars>>

\* main: return 0 if success else 1; sys.exit(main())
SpExit ==
    /\ stage = "split"
    /\ pc = "sp_return"
    /\ exit_status' = Some(IF ret = Some(TRUE) THEN 0 ELSE 1)
    /\ pc' = "exited"
    /\ UNCHANGED <<simpVars, write_error,
                   stage, consVars, fileVars, filterVars,
                   splitVars>>

(***************************************************************************)
(* Inputs of the Chunk Splitter                                            *)
(***************************************************************************)
\* lines of 0, 1, 2 and 5 characters, with and without a timestamp field
SplitLineSamples == {Chars(""), Chars("a"), Chars("bb"), Chars("1|7|c")}

SplitBodies == UNION {[1..n -> SplitLineSamples] : n \in 1..MaxSplitLines}

\* file contents: the lines joined by line breaks, with or without the
\* header line before them, and the header line alone
SplitFiles ==
    {Join(b, <<"\n">>) : b \in SplitBodies}
    \cup {Chars("# Format: id|date_unixtime|from|from_id|text") \o <<"\n">>
              \o Join(b, <<"\n">>) : b \in SplitBodies}
    \cup {Chars("# Format: id|date_unixtime|from|from_id|text")}

InitSplit ==
    /\ stage = "split"
    /\ pc = "sp_call"
    /\ exit_status = None
    /\ IdleConsolidate /\ IdleFilter /\ IdleSimplify
    /\ input_file \in {None} \cup {Some(f) : f \in SplitFiles}
    /\ output_file = None /\ ret = None /\ header = None /\ lines = <<>> /\ idx = 0
    /\ max_chars \in 0..MaxBudget
    /\ chunk_num = 0 /\ current_chunk = <<>> /\ current_chars = 0
    /\ chunk_files = <<>> /\ chunk_timestamps = <<>> /\ summary_file = None

NextSplit == SpRead \/ SpLoopStep \/ SpLast \/ SpExit

SpecSplit == InitSplit /\ [][NextSplit]_vars

(***************************************************************************)
(* Simplifier: flatten_text, is_bot_or_machine_message, transform_urls     *)
(***************************************************************************)
RECURSIVE ReplaceAll(_, _, _)
\* s.replace(sub, rep) for a non-empty sub
ReplaceAll(s, sub, rep) ==
    IF Len(s) = 0 THEN <<>>
    ELSE IF OccursAt(s, sub, 1)
    THEN rep \o ReplaceAll(SubSeq(s, Len(sub) + 1, Len(s)), sub, rep)
    ELSE <<s[1]>> \o ReplaceAll(Tail(s), sub, rep)

RECURSIVE IntToStr(_)
\* str(n) for n >= 0
IntToStr(n) ==
    IF n < 10 THEN <<Digits[n + 1]>>
    ELSE IntToStr(n \div 10) \o <<Digits[(n % 10) + 1]>>

RECURSIVE FlattenItems(_)
FlattenItems(items) ==
    IF Len(items) = 0 THEN <<>>
    ELSE (IF items[1].kind \in {"str", "span"} THEN items[1].text ELSE <<>>)
            \o FlattenItems(Tail(items))

\* flatten_text: a string as it is; of a list, its strings and the 'text'
\* of its dicts that have one; anything else gives ''
FlattenText(field) ==
    IF field.kind = "str" THEN field.value
    ELSE IF field.kind = "list" THEN FlattenItems(field.items)
    ELSE <<>>

\* known_bots
KnownBots == {Chars("Rose"), Chars("user609517172")}

\* bot_patterns, apart from the first, which has a wildcard
BotPhrases ==
    {Chars("Please remember to follow the rules"),
     Chars("This group has rules that you agreed to"),
     Chars("has joined the group"), Chars("has left the group"),
     Chars("has been banned"), Chars("has been removed")}

\* re.search(r'Hey there .+, and welcome to', text, re.IGNORECASE)
MatchesWelcome(t) ==
    \E k \in 1..Len(t), j \in 1..Len(t) :
        /\ OccursAt(t, Chars("hey there "), k)
        /\ j >= k + 11
        /\ OccursAt(t, Chars(", and welcome to"), j)
        /\ \A n \in (k + 10)..(j - 1) : t[n] # "\n"

\* is_bot_or_machine_message
IsBotOrMachineMessage(msg) ==
    \/ msg.type # "message"
    \/ msg.from \in KnownBots
    \/ msg.from_id \in KnownBots
    \/ LET t == Lower(FlattenText(msg.text))
       IN \/ MatchesWelcome(t)
          \/ \E phrase \in BotPhrases : Contains(t, Lower(phrase))

RECURSIVE NonSpaceRun(_)
\* the length of the run of non-whitespace characters s begins with
NonSpaceRun(s) ==
    IF Len(s) = 0 \/ IsSpace(s[1]) THEN 0 ELSE 1 + NonSpaceRun(Tail(s))

\* the length of 'http://' or 'https://' when s begins with it, else 0
SchemeLen(s) ==
    IF StartsWith(s, Chars("http://")) THEN 7
    ELSE IF StartsWith(s, Chars("https://")) THEN 8
    ELSE 0

RECURSIVE UpToDelimiter(_)
UpToDelimiter(s) ==
    IF Len(s) = 0 \/ s[1] \in {"/", "?", "#"} THEN <<>>
    ELSE <<s[1]>> \o UpToDelimiter(Tail(s))

\* urlparse(url).netloc of a url that begins with its scheme
Netloc(url) == UpToDelimiter(SubSeq(url, SchemeLen(url) + 1, Len(url)))

\* domain_only / "[URL]": what one URL is replaced by; urlparse raises
\* ValueError for a netloc with one square bracket and not the other
UrlReplacement(url, mode) ==
    IF mode = "replace" THEN Chars("[URL]")
    ELSE LET domain == Netloc(url)
         IN IF ("[" \in Range(domain)) # ("]" \in Range(domain))
            THEN Chars("[URL]")
            ELSE <<"[">> \o domain \o <<"]">>

RECURSIVE SubUrls(_, _)
\* re.sub(r'https?://\S+', ..., text)
SubUrls(s, mode) ==
    IF Len(s) = 0 THEN <<>>
    ELSE LET p == SchemeLen(s)
         IN IF p > 0 /\ Len(s) > p /\ ~IsSpace(s[p + 1])
            THEN LET n == NonSpaceRun(s)
                 IN UrlReplacement(SubSeq(s, 1, n), mode)
                        \o SubUrls(SubSeq(s, n + 1, Len(s)), mode)
            ELSE <<s[1]>> \o SubUrls(Tail(s), mode)

\* transform_urls
TransformUrls(text, mode) ==
    IF mode = "preserve" THEN text
    ELSE IF mode \in {"replace", "domain"} THEN SubUrls(text, mode)
    ELSE text

(***************************************************************************)
(* simplify_messages                                                       *)
(***************************************************************************)
DefaultTimeWindow == 180
DefaultMaxLength == 300

\* the record lines 280-286 build from an entry and its transformed text
SimplifiedRecord(msg, text) ==
    [id |-> msg.id, date_unixtime |-> msg.date_unixtime, from |-> msg.from,
     from_id |-> msg.from_id, text |-> text]

RECURSIVE SimplifyAllAnyType(_, _)
SimplifyAllAnyType(msgs, mode) ==
    IF Len(msgs) = 0 THEN <<>>
    ELSE LET msg == msgs[1]
             text == FlattenText(msg.text)
             rest == SimplifyAllAnyType(Tail(msgs), mode)
         IN IF Len(text) > 0
            THEN <<SimplifiedRecord(msg, IF mode # "preserve"
                                         THEN TransformUrls(text, mode)
                                         ELSE text)>> \o rest
            ELSE rest

RECURSIVE SimplifyAll(_, _)
\* Lines 269-286: the entries of type 'message' with text, simplified
SimplifyAll(msgs, mode) ==
    IF Len(msgs) = 0 THEN <<>>
    ELSE LET msg == msgs[1]
             text == FlattenText(msg.text)
             rest == SimplifyAll(Tail(msgs), mode)
         IN IF msg.type = "message" /\ Len(text) > 0
            THEN <<SimplifiedRecord(msg, IF mode # "preserve"
                                         THEN TransformUrls(text, mode)
                                         ELSE text)>> \o rest
            ELSE rest

\* str(value or "") of an id
IdStr(id) == IF id = 0 THEN <<>> ELSE IntToStr(id)

\* Lines 310-318: the line of one record
SerializeLine(msg) ==
    LET safe_text == ReplaceAll(ReplaceAll(msg.text, <<"|">>, <<"\\", "|">>),
                                <<"\n">>, <<" ">>)
    IN IdStr(msg.id) \o <<"|">> \o msg.date_unixtime \o <<"|">> \o msg.from
         \o <<"|">> \o msg.from_id \o <<"|">> \o safe_text

\* Lines 306-324: the content of the output file
SerializeFile(records) ==
    Chars("# Format: id|date_unixtime|from|from_id|text") \o <<"\n">>
        \o Concat([k \in 1..Len(records) |-> SerializeLine(records[k]) \o <<"\n">>])

\* create_markdown_output: one section per record, the text with its
\* double newlines continued as a blockquote (dates and headings left out)
MarkdownSections(records) ==
    [k \in 1..Len(records) |->
        [id |-> records[k].id, from |-> records[k].from,
         from_id |-> records[k].from_id,
         date_unixtime |-> records[k].date_unixtime,
         text |-> <<">", " ">> \o ReplaceAll(records[k].text, <<"\n", "\n">>,
                                             <<"\n", "\n", ">", " ">>)]]

simpOpts == <<filter_bots, url_mode, consolidate, want_output, want_markdown>>

\* an uncaught exception: the traceback is printed and the status is 1
Crash ==
    /\ pc' = "crashed"
    /\ exit_status' = Some(1)

\* Lines 238-250: os.path.getsize and open raise FileNotFoundError for a
\* missing file; else the document is loaded
SmRead ==
    /\ stage = "simplify"
    /\ pc = "sm_call"
    /\ IF input_file = None
       THEN Crash /\ UNCHANGED raw_messages
       ELSE /\ raw_messages' = input_file[1].messages
            /\ pc' = "sm_filter"
            /\ UNCHANGED exit_status
    /\ UNCHANGED <<stage, consVars, fileVars, filterVars, splitVars, simpOpts,
                   simplified, markdown_file, write_error>>

\* Lines 252-263: the bot filter; its report divides by the number of entries
SmFilterBots ==
    /\ pc = "sm_filter"
    /\ IF filter_bots
       THEN IF Len(raw_messages) = 0
            THEN Crash /\ UNCHANGED raw_messages
            ELSE /\ raw_messages' = SelectSeq(raw_messages,
                                        LAMBDA m : ~IsBotOrMachineMessage(m))
                 /\ pc' = "sm_simplify"
                 /\ UNCHANGED exit_status
       ELSE /\ pc' = "sm_simplify"
            /\ UNCHANGED <<raw_messages, exit_status>>
    /\ UNCHANGED <<stage, consVars, fileVars, filterVars, splitVars, simpOpts,
                   simplified, markdown_file, write_error>>

\* Lines 265-297: simplify each entry; call consolidate_messages if asked
SmSimplify ==
    /\ pc = "sm_simplify"
    /\ LET result == SimplifyAll(raw_messages, url_mode)
       IN /\ simplified' = result
          /\ IF consolidate
             THEN /\ messages' = result
                  /\ time_window' = DefaultTimeWindow
                  /\ max_length' = DefaultMaxLength
                  /\ pc' = "cm_enter"
             ELSE /\ pc' = "sm_write"
                  /\ UNCHANGED <<messages, time_window, max_length>>
    /\ UNCHANGED <<stage, exit_status, i, current_group, consolidated, fileVars,
                   filterVars, splitVars, simpOpts, raw_messages, markdown_file,
                   write_error>>

\* Lines 297-302: the result of consolidate_messages; the statistics divide
\* by the number of records before consolidation
SmConsolidated ==
    /\ stage = "simplify"
    /\ pc = "cm_return"
    /\ IF Len(simplified) = 0
       THEN Crash /\ UNCHANGED simplified
       ELSE /\ simplified' = consolidated
            /\ pc' = "sm_write"
            /\ UNCHANGED exit_status
    /\ UNCHANGED <<stage, consVars, fileVars, filterVars, splitVars, simpOpts,
                   raw_messages, markdown_file, write_error>>

\* Lines 304-337: the pipe-separated output file, when one is asked for;
\* the open() fails or not; the last report divides by the number of entries
SmWrite ==
    /\ pc = "sm_write"
    /\ IF want_output
       THEN \E writable \in BOOLEAN :
               IF ~writable
               THEN Crash /\ write_error' = TRUE /\ UNCHANGED output_file
               ELSE /\ output_file' = Some(SerializeFile(simplified))
                    /\ UNCHANGED write_error
                    /\ IF Len(input_file[1].messages) = 0
                       THEN Crash
                       ELSE pc' = "sm_markdown" /\ UNCHANGED exit_status
       ELSE /\ pc' = "sm_markdown"
            /\ UNCHANGED <<output_file, exit_status, write_error>>
    /\ UNCHANGED <<stage, consVars, input_file, ret, header, lines, idx,
                   filterVars, splitVars, simpOpts, raw_messages, simplified,
                   markdown_file>>

\* Lines 339-346 and the end of __main__: the markdown file, when one is
\* asked for; then the interpreter ends with status 0
SmMarkdown ==
    /\ pc = "sm_markdown"
    /\ IF want_markdown
       THEN \E writable \in BOOLEAN :
               IF ~writable
               THEN Crash /\ write_error' = TRUE /\ UNCHANGED markdown_file
               ELSE /\ markdown_file' = Some(MarkdownSections(simplified))
                    /\ pc' = "exited"
                    /\ exit_status' = Some(0)
                    /\ UNCHANGED write_error
       ELSE /\ pc' = "exited"
            /\ exit_status' = Some(0)
            /\ UNCHANGED <<markdown_file, write_error>>
    /\ UNCHANGED <<stage, consVars, fileVars, filterVars, splitVars, simpOpts,
                   raw_messages, simplified>>

(***************************************************************************)
(* Inputs of the Simplifier                                                *)
(***************************************************************************)
PlainText(s) == [kind |-> "str", value |-> s]

Entry(type, from, from_id, text) ==
    [type |-> type, from |-> from, from_id |-> from_id, text |-> text]

\* entries of an export: user messages, with a pipe or a line break in the
\* name or the text, a service entry, a bot's message, a bot phrase, a
\* text of fragments, texts that flatten to nothing, a text with a URL
EntrySamples ==
    {Entry("message", Chars("A"), Chars("u1"), PlainText(Chars("hi"))),
     Entry("message", Chars("A"), Chars("u1"), PlainText(Chars("a|b\nc\n\nd"))),
     Entry("message", Chars("A|B"), Chars("u2"), PlainText(Chars("yo"))),
     Entry("message", Chars("A\nB"), Chars("u2"), PlainText(Chars("yo"))),
     Entry("service", Chars("A"), Chars("u1"), PlainText(Chars("pinned"))),
     Entry("message", Chars("Rose"), Chars("u9"), PlainText(Chars("hi"))),
     Entry("message", Chars("C"), Chars("u3"), PlainText(Chars("C has joined the group"))),
     Entry("message", Chars("A"), Chars("u1"),
           [kind |-> "list",
            items |-> <<[kind |-> "str", text |-> Chars("a")],
                        [kind |-> "span", text |-> Chars("b")],
                        [kind |-> "marker"]>>]),
     Entry("message", Chars("A"), Chars("u1"),
           [kind |-> "list", items |-> <<[kind |-> "marker"]>>]),
     Entry("message", Chars("A"), Chars("u1"), PlainText(Chars(""))),
     Entry("message", Chars("A"), Chars("u1"), PlainText(Chars("see http://a.b/c?d now")))}

\* the k-th entry of an export has id k and is sent at 10 * k seconds
EntryAt(e, k) ==
    [type |-> e.type, id |-> k, date_unixtime |-> IntToStr(10 * k),
     from |-> e.from, from_id |-> e.from_id, text |-> e.text]

Exports ==
    {[name |-> Chars("G"), messages |-> [k \in 1..Len(es) |-> EntryAt(es[k], k)]] :
        es \in UNION {[1..n -> EntrySamples] : n \in 0..MaxEntries}}

UrlModes == {"preserve", "replace", "domain"}

\* __main__ lines 360-407: the markdown file is asked for whenever the
\* output file is; the window and the length limit keep their defaults
InitSimplify ==
    /\ stage = "simplify"
    /\ pc = "sm_call"
    /\ exit_status = None
    /\ IdleConsolidate /\ IdleFilter /\ IdleSplit
    /\ input_file \in {None} \cup {Some(e) : e \in Exports}
    /\ output_file = None /\ ret = None /\ header = None /\ lines = <<>> /\ idx = 0
    /\ raw_messages = <<>>
    /\ filter_bots \in BOOLEAN
    /\ url_mode \in UrlModes
    /\ consolidate \in BOOLEAN
    /\ want_output \in BOOLEAN
    /\ want_markdown \in (IF want_output THEN {TRUE} ELSE BOOLEAN)
    /\ simplified = <<>>
    /\ markdown_file = None
    /\ write_error = FALSE

NextSimplify ==
    \/ SmRead \/ SmFilterBots \/ SmSimplify
    \/ CmEnter \/ CmLoop \/ CmLast
    \/ SmConsolidated \/ SmWrite \/ SmMarkdown

SpecSimplify == InitSimplify /\ [][NextSimplify]_vars

(***************************************************************************)
(* The three programs                                                      *)
(***************************************************************************)
Init == InitSimplify \/ InitFilter \/ InitSplit

Next == NextSimplify \/ NextFilter \/ NextSplit

Spec == Init /\ [][Next]_vars

(***************************************************************************)
(* Properties of consolidate_messages                                      *)
(***************************************************************************)
\* the texts of a run joined with a double newline, in order
RunText(run) == Join([k \in 1..Len(run) |-> run[k].text], <<"\n", "\n">>)

\* the last two messages the loop has looked at, once it has seen two
\* (the state between two iterations, or between the last one and the return)
SeenTwo == pc = "cm_loop" /\ i >= 2
PrevMsg == messages[i - 1]
LastMsg == messages[i]
SameSender == LastMsg.from_id = PrevMsg.from_id
Delta == ParseInt(LastMsg.date_unixtime) - ParseInt(PrevMsg.date_unixtime)
MergedLastTwo ==
    /\ Len(current_group) >= 2
    /\ current_group[Len(current_group)] = LastMsg
    /\ current_group[Len(current_group) - 1] = PrevMsg
SeparatedLastTwo ==
    /\ current_group = <<LastMsg>>
    /\ Len(consolidated) >= 1
    /\ consolidated[Len(consolidated)].date_unixtime = PrevMsg.date_unixtime

\* C1: whenever a run is closed, exactly one record is appended to the
\* result; for a run of more than one message it has the id, sender name
\* and sender id of the run's first message, the timestamp of the run's
\* last message and the run's texts joined with a double newline in order;
\* a run of exactly one message is appended unchanged.
C1_RunEmission ==
    [][consolidated' # consolidated =>
        /\ Len(consolidated') = Len(consolidated) + 1
        /\ SubSeq(consolidated', 1, Len(consolidated)) = consolidated
        /\ LET run == current_group
                rec == consolidated'[Len(consolidated')]
           IN IF Len(run) > 1
              THEN /\ rec.id = run[1].id
                   /\ rec.from = run[1].from
                   /\ rec.from_id = run[1].from_id
                   /\ rec.date_unixtime = run[Len(run)].date_unixtime
                   /\ rec.text = RunText(run)
              ELSE rec = run[1]]_vars

\* a run of three messages with differing names and timestamps was emitted
\* as one record, and (in another behaviour) single runs are emitted too
C1_Witness ==
    /\ pc = "cm_return"
    /\ Len(messages) = 3
    /\ Len(consolidated) = 1
    /\ messages[1].from # messages[3].from
    /\ messages[1].date_unixtime # messages[3].date_unixtime

RECURSIVE PartitionsFrom(_, _)
\* out is the image of a split of messages[first..] into consecutive runs
PartitionsFrom(out, first) ==
    IF Len(out) = 0 THEN first = Len(messages) + 1
    ELSE \E n \in 1..(Len(messages) - first + 1) :
            LET run == SubSeq(messages, first, first + n - 1)
            IN /\ IF n = 1 THEN out[1].text = run[1].text
                  ELSE /\ out[1].text = RunText(run)
                       /\ \A k \in 1..n : run[k].from_id = run[1].from_id
               /\ PartitionsFrom(Tail(out), first + n)

\* C2: the result has no more records than the input, and its records
\* partition the input in order: each output text is one unmodified input
\* text or the double-newline join of two or more contiguous input texts of
\* one sender id; every input message is in exactly one output record.
C2_Partition ==
    pc = "cm_return" =>
        /\ Len(consolidated) <= Len(messages)
        /\ PartitionsFrom(consolidated, 1)

C2_Witness ==
    /\ pc = "cm_return"
    /\ Len(messages) = 3
    /\ Len(consolidated) = 2
    /\ Len(current_group) = 2

\* C3: two adjacent messages of one sender id, both texts within
\* max_length, are merged when their timestamps differ by exactly the
\* window and are separated when they differ by window + 1.
C3_WindowBoundary ==
    (SeenTwo /\ SameSender /\ Len(PrevMsg.text) <= max_length
             /\ Len(LastMsg.text) <= max_length) =>
        /\ Delta = time_window => MergedLastTwo
        /\ Delta = time_window + 1 => SeparatedLastTwo

C3_Witness ==
    /\ SeenTwo /\ SameSender /\ Len(PrevMsg.text) <= max_length
    /\ Len(LastMsg.text) <= max_length
    /\ Delta = time_window
    /\ time_window = 1
    /\ MergedLastTwo

\* C4: for two adjacent messages of one sender id within the time window,
\* a text of exactly max_length characters merges (the other being within
\* max_length), and a text of max_length + 1 characters never merges,
\* neither as the incoming message nor as the last message of the run.
C4_LengthBoundary ==
    (SeenTwo /\ SameSender /\ Delta <= time_window) =>
        /\ (Len(LastMsg.text) = max_length /\ Len(PrevMsg.text) <= max_length)
                => MergedLastTwo
        /\ (Len(PrevMsg.text) = max_length /\ Len(LastMsg.text) <= max_length)
                => MergedLastTwo
        /\ Len(LastMsg.text) = max_length + 1 => SeparatedLastTwo
        /\ Len(PrevMsg.text) = max_length + 1 => SeparatedLastTwo

C4_Witness ==
    /\ SeenTwo /\ SameSender /\ Delta <= time_window
    /\ Len(LastMsg.text) = max_length
    /\ Len(PrevMsg.text) = max_length
    /\ MergedLastTwo
    /\ i = 3
    /\ Len(messages[1].text) = max_length + 1
    /\ messages[1].from_id = messages[2].from_id
    /\ ParseInt(messages[2].date_unixtime) - ParseInt(messages[1].date_unixtime) <= time_window
    /\ Len(consolidated) = 1

(***************************************************************************)
(* Properties of filter_noise                                              *)
(***************************************************************************)
\* the categories in their priority order
CategoryPriority == <<"empty", "low_value", "off_topic", "emoji_only", "url_only">>

\* whether the folded, trimmed text t is of category c
InCategory(c, t) ==
    CASE c = "empty" -> Len(t) = 0
      [] c = "low_value" -> MatchesLowValue(t)
      [] c = "off_topic" -> MatchesOffTopic(t)
      [] c = "emoji_only" -> MatchesEmoji(t)
      [] c = "url_only" -> MatchesUrlOnly(t)

\* the first category in priority order that the text field is of, "none" if none
FirstCategory(field) ==
    LET t == Lower(Strip(field))
        hits == {k \in 1..5 : InCategory(CategoryPriority[k], t)}
    IN IF hits = {} THEN "none"
       ELSE CategoryPriority[CHOOSE k \in hits : \A j \in hits : k <= j]

\* the line the noise loop classifies in this step
NoiseLine == lines[idx + 1]
NoiseStepTaken == pc = "fn_noise" /\ idx < Len(lines) /\ idx' = idx + 1
WellFormed(line) == Len(Split(line, "|")) >= 5
TextField(line) == Split(line, "|")[5]

KeptThisLine ==
    /\ filtered_lines' = Append(filtered_lines, NoiseLine)
    /\ noise_count' = noise_count
    /\ noise_categories' = noise_categories
DroppedThisLineAs(c) ==
    /\ filtered_lines' = filtered_lines
    /\ noise_count' = noise_count + 1
    /\ noise_categories' = [noise_categories EXCEPT ![c] = @ + 1]

\* C5: every well-formed record has exactly one outcome: it is kept, or it
\* is dropped and tallied under exactly one category; when its text is of
\* some category, that is the first in the order empty > low_value >
\* off_topic > emoji_only > url_only. The removed count is always the sum of
\* the category counts, and kept + removed is the number of lines classified.
C5_Classification ==
    /\ [](pc = "fn_noise" =>
            /\ noise_count = noise_categories["empty"] + noise_categories["low_value"]
                             + noise_categories["off_topic"]
                             + noise_categories["emoji_only"]
                             + noise_categories["url_only"]
            /\ Len(filtered_lines) + noise_count = idx)
    /\ [][(NoiseStepTaken /\ WellFormed(NoiseLine)) =>
            LET first == FirstCategory(TextField(NoiseLine))
            IN IF first # "none" THEN DroppedThisLineAs(first)
               ELSE KeptThisLine \/ DroppedThisLineAs("low_value")]_vars

\* a text both emoji-only and url-only was tallied as emoji_only, next to a
\* record that was kept and one dropped under another category
C5_Witness ==
    /\ pc = "fn_noise"
    /\ idx = 2
    /\ Len(lines) = 2
    /\ WellFormed(lines[1])
    /\ TextField(lines[1]) = <<"[", Han, "]", "\n">>
    /\ noise_categories["emoji_only"] = 1
    /\ noise_categories["off_topic"] = 1
    /\ noise_count = 2

\* the lines of the input file after the header
InputBody ==
    LET all == ReadLines(input_file[1])
    IN IF Len(all) > 0 /\ StartsWith(all[1], HeaderMarker) THEN Tail(all) ELSE all

IsFiveFields(line) == Len(Split(line, "|")) = 5

\* the drop rule of the claim: a present, numeric id below start_id, or a
\* present, numeric timestamp below the threshold
ClaimedDrop(line) ==
    LET parts == Split(line, "|")
    IN \/ start_msg_id # None /\ IsDigitStr(parts[1])
          /\ ParseInt(parts[1]) < start_msg_id[1]
       \/ start_timestamp # None /\ IsDigitStr(parts[2])
          /\ ParseInt(parts[2]) < start_timestamp[1]
ClaimedKeep(line) == ~ClaimedDrop(line)

\* C6: the range restriction drops a 5-field record if and only if its id
\* is present, numeric and below start_id, or its timestamp is present,
\* numeric and below the start_date threshold: the 5-field records that
\* pass are exactly those of the input the rule does not drop.
C6_RangeDropsOnlyNumeric ==
    pc = "fn_noise" =>
        SelectSeq(lines, IsFiveFields)
            = SelectSeq(SelectSeq(InputBody, IsFiveFields), ClaimedKeep)

\* a record the Simplifier wrote for two messages of one sender
TwoMessageGroup ==
    <<[id |-> 3, date_unixtime |-> Chars("2"), from |-> Chars("A"),
       from_id |-> Chars("u1"), text |-> Chars("a")],
      [id |-> 4, date_unixtime |-> Chars("4"), from |-> Chars("A"),
       from_id |-> Chars("u1"), text |-> Chars("b")]>>

\* whether a line of the Noise Filter's input is that record's line
IsConsolidation(line) ==
    line = SerializeLine(CombineGroup(TwoMessageGroup)) \o <<"\n">>

\* the text the minimum-length rule measures
RecordText(line) == Strip(TextField(line))

\* C11: a well-formed record whose text is of no pattern category is dropped
\* and tallied as low_value exactly when a threshold is set, its text is
\* shorter than the threshold and it is not a consolidation of several
\* messages; else it is kept.
C11_MinLengthRule ==
    [][(NoiseStepTaken /\ WellFormed(NoiseLine)
            /\ FirstCategory(TextField(NoiseLine)) = "none") =>
          IF /\ min_length > 0
             /\ Len(RecordText(NoiseLine)) < min_length
             /\ ~IsConsolidation(NoiseLine)
          THEN DroppedThisLineAs("low_value")
          ELSE KeptThisLine]_vars

\* the lines of the output file after the header it was given
OutputBody ==
    LET all == ReadLines(output_file[1])
    IN IF header # None THEN Tail(all) ELSE all

IsMalformed(line) == Len(Split(line, "|")) < 5

\* C12: once the Noise Filter has written its output, the lines of fewer
\* than five fields in it are those of the input, all of them, unchanged and
\* in their order, whatever the options.
C12_MalformedPassThrough ==
    (stage = "filter" /\ output_file # None) =>
        SelectSeq(OutputBody, IsMalformed) = SelectSeq(InputBody, IsMalformed)

\* the output was written with a start id, a start date and a length
\* threshold set: the record of the input was excluded, and its line of
\* fewer than five fields is the whole output body
C12_Witness ==
    /\ stage = "filter" /\ output_file # None
    /\ start_msg_id # None /\ start_timestamp # None /\ min_length > 0
    /\ Len(InputBody) = 2
    /\ excluded_count = 1
    /\ Len(SelectSeq(InputBody, IsMalformed)) = 1
    /\ Len(OutputBody) = 1

RECURSIVE IsSubsequence(_, _)
\* whether a is b with some of its elements left out
IsSubsequence(a, b) ==
    IF Len(a) = 0 THEN TRUE
    ELSE IF Len(b) = 0 THEN FALSE
    ELSE IF a[1] = b[1] THEN IsSubsequence(Tail(a), Tail(b))
    ELSE IsSubsequence(a, Tail(b))

\* how many times line x is in the sequence of lines ls
Occurrences(x, ls) == Cardinality({k \in 1..Len(ls) : ls[k] = x})

\* the lines of the input file and of the output file
InputLines == ReadLines(input_file[1])
WrittenLines == ReadLines(output_file[1])
InputHasHeader == Len(InputLines) > 0 /\ StartsWith(InputLines[1], HeaderMarker)

\* the lines of the output file after the input's header line, when it
\* begins with that line
WrittenBody ==
    IF InputHasHeader /\ Len(WrittenLines) > 0 /\ WrittenLines[1] = InputLines[1]
    THEN Tail(WrittenLines)
    ELSE WrittenLines

\* C13: the output the Noise Filter writes begins with the input's header
\* line when the input has one; the lines after it are lines of the input
\* body, unchanged and in their order, and a line that is kept is kept as
\* often as the input has it.
C13_OutputIsKeptLines ==
    (stage = "filter" /\ output_file # None) =>
        /\ InputHasHeader =>
              Len(WrittenLines) > 0 /\ WrittenLines[1] = InputLines[1]
        /\ IsSubsequence(WrittenBody, InputBody)
        /\ \A k \in 1..Len(WrittenBody) :
              Occurrences(WrittenBody[k], WrittenBody)
                  = Occurrences(WrittenBody[k], InputBody)

\* an output of the header and two different kept lines
C13_Witness ==
    /\ stage = "filter" /\ output_file # None
    /\ InputHasHeader
    /\ Len(WrittenBody) = 2
    /\ WrittenBody[1] # WrittenBody[2]

\* an output in which a line the input has twice is kept twice
C13_WitnessTwice ==
    /\ stage = "filter" /\ output_file # None
    /\ Len(WrittenBody) = 2
    /\ WrittenBody[1] = WrittenBody[2]

\* thresholds to compare a run's with
SampleThresholds == {0, 1, 2, 3, 4, 5, 86400}

\* the thresholds that are not above t; no threshold is below every one
NotAbove(t) ==
    IF t = None THEN {None}
    ELSE {None} \cup {Some(n) : n \in {m \in SampleThresholds : m <= t[1]}}

\* the noise loop of this run has classified its last line
NoiseLoopDone == stage = "filter" /\ pc = "fn_noise" /\ idx = Len(lines)

\* C14: the lines a run keeps are those the function of its options gives,
\* and they are among the lines kept, in their order, under every start id
\* and start timestamp that are not above the run's: raising either
\* threshold never adds a kept record.
C14_RangeMonotonic ==
    NoiseLoopDone =>
        /\ filtered_lines
              = KeptLines(InputBody, start_msg_id, start_timestamp, min_length)
        /\ \A sid \in NotAbove(start_msg_id), sts \in NotAbove(start_timestamp) :
              LET lower == KeptLines(InputBody, sid, sts, min_length)
              IN /\ IsSubsequence(filtered_lines, lower)
                 /\ Len(filtered_lines) <= Len(lower)

\* a run with a start id and a start date that excluded one of two records,
\* both of which are kept when no threshold is given
C14_Witness ==
    /\ NoiseLoopDone
    /\ start_msg_id # None /\ start_timestamp # None
    /\ excluded_count = 1
    /\ Len(filtered_lines) = 1
    /\ Len(KeptLines(InputBody, None, None, min_length)) = 2

(***************************************************************************)
(* Properties of split_file_by_char_count                                  *)
(***************************************************************************)
\* the lines of the input file after its header line
SplitInputLines ==
    LET all == Split(input_file[1], "\n")
    IN IF StartsWith(all[1], HeaderMarker) THEN Tail(all) ELSE all

\* the data lines of chunk file k: its lines, without the header line
\* when the file carries one
ChunkDataLines(k) ==
    LET ls == Split(chunk_files[k], "\n")
    IN IF k = 1 /\ header # None /\ ls[1] = header[1] THEN Tail(ls) ELSE ls

RECURSIVE ChunkLinesFrom(_)
\* the data lines of chunk files k, k + 1, ... one after the other
ChunkLinesFrom(k) ==
    IF k > Len(chunk_files) THEN <<>>
    ELSE ChunkDataLines(k) \o ChunkLinesFrom(k + 1)

\* C7: after a successful split, the lines of the chunk files in index
\* order, the header line removed, are exactly the lines of the input after
\* its header, and the header line is in the first chunk file only.
C7_RoundTrip ==
    (pc = "sp_return" /\ ret = Some(TRUE)) =>
        /\ ChunkLinesFrom(1) = SplitInputLines
        /\ header # None => Split(chunk_files[1], "\n")[1] = header[1]
        /\ \A k \in 2..Len(chunk_files) : ~StartsWith(chunk_files[k], HeaderMarker)

\* three chunk files written from an input with a header line
C7_Witness ==
    /\ pc = "sp_return" /\ ret = Some(TRUE)
    /\ header # None
    /\ Len(chunk_files) = 3
    /\ Len(lines) = 3
    /\ lines[1] # lines[2] /\ lines[2] # lines[3]

\* C8: the content of every chunk file written, the first with its header
\* line included, is at most max_chars characters long, unless the chunk
\* is a single line that alone is longer than max_chars.
C8_ChunkWithinBudget ==
    \A k \in 1..Len(chunk_files) :
        \/ Len(chunk_files[k]) <= max_chars
        \/ /\ Len(ChunkDataLines(k)) = 1
           /\ Len(ChunkDataLines(k)[1]) > max_chars

(***************************************************************************)
(* Properties of the programs' exit status                                 *)
(***************************************************************************)
\* the run did what it was asked: simplify_messages ran to its end, or
\* filter_noise / split_file_by_char_count returned True
Succeeded ==
    IF stage = "simplify" THEN pc = "exited" ELSE ret = Some(TRUE)

\* C9: a program that has ended has status 1 when its input file did not
\* exist or its output could not be written, and status 0 when it succeeded.
C9_ExitStatus ==
    exit_status # None =>
        /\ (input_file = None \/ write_error) => exit_status = Some(1)
        /\ Succeeded => exit_status = Some(0)

(***************************************************************************)
(* Properties of the Simplifier's output file                              *)
(***************************************************************************)
\* the lines of the output file, each ended by its line break
OutputLines ==
    LET all == Split(output_file[1], "\n")
    IN SubSeq(all, 1, Len(all) - 1)

\* the number of fields of a line split at each '|' no backslash precedes
NumFields(line) ==
    1 + Cardinality({k \in 1..Len(line) :
                        line[k] = "|" /\ (k = 1 \/ line[k - 1] # "\\")})

\* C10: the output file of the Simplifier is one header line and one line
\* per output record, and each record line has exactly five fields when
\* split at its unescaped '|'.
C10_OneRecordPerLine ==
    (stage = "simplify" /\ output_file # None) =>
        /\ Len(OutputLines) = 1 + Len(simplified)
        /\ OutputLines[1] = Chars("# Format: id|date_unixtime|from|from_id|text")
        /\ \A k \in 2..Len(OutputLines) : NumFields(OutputLines[k]) = 5

(***************************************************************************)
(* Properties of the Chunk Splitter's failures                             *)
(***************************************************************************)
\* the input file is there and nothing is left of it after its header line
NoContentToSplit ==
    input_file # None /\ Len(Join(SplitInputLines, <<"\n">>)) = 0

\* C15: in a run of the Chunk Splitter whose input file is missing, or
\* empty after its header line, no chunk file and no manifest is ever
\* written, the function returns False and the exit status is 1.
C15_SplitterFailures ==
    (stage = "split" /\ (input_file = None \/ NoContentToSplit)) =>
        /\ chunk_files = <<>>
        /\ summary_file = None
        /\ pc \in {"sp_return", "exited"} => ret = Some(FALSE)
        /\ pc = "exited" => exit_status = Some(1)

\* the splitter has ended on an input that is a header line and no more
C15_Witness ==
    /\ stage = "split" /\ pc = "exited"
    /\ NoContentToSplit
    /\ header # None
    /\ exit_status = Some(1)

\* the splitter has ended on a missing input file
C15_WitnessMissing ==
    /\ stage = "split" /\ pc = "exited"
    /\ input_file = None
    /\ exit_status = Some(1)

(***************************************************************************)
(* Properties of the Chunk Splitter's packing                              *)
(***************************************************************************)
\* the first data line of chunk file k
FirstLineOf(k) == ChunkDataLines(k)[1]

\* the length chunk file k would have with the first line of the next
\* chunk file appended after one separator
LengthWithNextLine(k) == Len(chunk_files[k]) + 1 + Len(FirstLineOf(k + 1))

\* C16: every chunk file holds a line, and every chunk file but
\* the last would be longer than max_chars with the first line of the
\* next one appended.
C16_PackedToBudget ==
    /\ \A k \in 1..Len(chunk_files) : Len(ChunkDataLines(k)) >= 1
    /\ \A k \in 1..(Len(chunk_files) - 1) : LengthWithNextLine(k) > max_chars

(***************************************************************************)
(* filter_noise against is_noise_message                                   *)
(***************************************************************************)
DroppedThisLine ==
    /\ filtered_lines' = filtered_lines
    /\ noise_count' = noise_count + 1

\* C17: the noise loop keeps a well-formed record exactly when
\* is_noise_message of its text and the threshold is False; so with a
\* threshold set, a text longer than it, without a double line break, is
\* kept even when it matches a pattern.
C17_AgreesWithIsNoiseMessage ==
    [][(NoiseStepTaken /\ WellFormed(NoiseLine)) =>
          IF IsNoiseMessage(RecordText(NoiseLine), min_length)
          THEN DroppedThisLine
          ELSE KeptThisLine]_vars

(***************************************************************************)
(* Properties of the Simplifier's selection of entries                     *)
(***************************************************************************)
\* the entries of the export
ExportEntries == input_file[1].messages

\* the exclusions the bot filter adds: a known sender name or id, a bot phrase
ExcludedAsBot(e) ==
    \/ e.from \in KnownBots
    \/ e.from_id \in KnownBots
    \/ MatchesWelcome(Lower(FlattenText(e.text)))
    \/ \E phrase \in BotPhrases :
          Contains(Lower(FlattenText(e.text)), Lower(phrase))

\* the entries the claim lets through
Emittable(e) ==
    /\ e.type = "message"
    /\ Len(FlattenText(e.text)) > 0
    /\ filter_bots => ~ExcludedAsBot(e)

IdsOf(records) == [k \in 1..Len(records) |-> records[k].id]

\* simplified holds the records of the simplify loop, not yet consolidated
SimplifyLoopDone ==
    stage = "simplify" /\ (pc = "cm_enter" \/ (pc = "sm_write" /\ ~consolidate))

\* C18: every record the Simplifier holds comes from an entry of type
\* 'message' with text, bot filter on or off; and the records of the
\* simplify loop are those of exactly the entries of type 'message' with
\* text that, with the bot filter on, no sender or phrase exclusion removes.
C18_OnlyMessagesEmitted ==
    stage = "simplify" =>
        /\ \A k \in 1..Len(simplified) :
              \E n \in 1..Len(ExportEntries) :
                 /\ ExportEntries[n].id = simplified[k].id
                 /\ ExportEntries[n].type = "message"
                 /\ Len(FlattenText(ExportEntries[n].text)) > 0
        /\ SimplifyLoopDone =>
              IdsOf(simplified) = IdsOf(SelectSeq(ExportEntries, Emittable))

\* with the bot filter off, of a service entry with text and a message of
\* a known bot only the bot's message is a record
C18_Witness ==
    /\ SimplifyLoopDone
    /\ ~filter_bots
    /\ Len(ExportEntries) = 2
    /\ ExportEntries[1].type = "service"
    /\ Len(FlattenText(ExportEntries[1].text)) > 0
    /\ ExportEntries[2].from \in KnownBots
    /\ IdsOf(simplified) = <<2>>

====
